---- MODULE Spec2Model ----
(***************************************************************************)
(* Model of the dynamic MCP registry: the catalog (src/data/mcpServers.js), *)
(* the request handlers of the router (src/routes/mcpServers.js) and the   *)
(* two applications that mount it (src/index.js, src/index-https.js).      *)
(*                                                                         *)
(* JavaScript strings are sequences of character codes, so that case       *)
(* folding, trimming, splitting, substring search, base64 and parseInt are *)
(* computed the way the runtime computes them.                             *)
(***************************************************************************)
EXTENDS Integers, Sequences, FiniteSets, TLC

\* mcpServers: the catalog array of the running process
\* loaded:     the catalog as it was when the process started
\* app:        the process: its entry point and its NODE_ENV
\* request:    the request last sent;  response: the answer to it
\* served:     the number of requests answered so far
\* chain:      the progress of a client that follows cursors
\* noted:      an answer of this process has carried a versionNote
\* startup:    the position of the startup code and the listeners it opened
VARIABLES mcpServers, loaded, app, request, response, served, chain, noted, startup

vars == <<mcpServers, loaded, app, request, response, served, chain, noted, startup>>

(***************************************************************************)
(* Bounds of the model.                                                    *)
(***************************************************************************)
\* synthetic catalogs hold 1..MaxCatalog descriptors
MaxCatalog == 4
\* numeric limit values tried by a client: -1 .. MaxLimit (plus fixed text cases)
MaxLimit == 3
\* well-formed cursors tried by a client encode offsets 0 .. MaxOffset
MaxOffset == 5

(***************************************************************************)
(* JavaScript values                                                       *)
(***************************************************************************)
\* a JS number that is an integer, or NaN
Num(n) == [nan |-> FALSE, v |-> n]
NaN == [nan |-> TRUE, v |-> 0]

\* values a query parameter (or a response field) can hold
Undefined == [kind |-> "undefined", s |-> <<>>, a |-> <<>>]
Null == [kind |-> "null", s |-> <<>>, a |-> <<>>]
Str(s) == [kind |-> "string", s |-> s, a |-> <<>>]
Arr(a) == [kind |-> "array", s |-> <<>>, a |-> a]
Obj == [kind |-> "object", s |-> <<>>, a |-> <<>>]

\* ToBoolean: undefined, null and "" are falsy; arrays and objects are truthy
Truthy(x) ==
    CASE x.kind = "undefined" -> FALSE
      [] x.kind = "null" -> FALSE
      [] x.kind = "string" -> x.s # <<>>
      [] OTHER -> TRUE

(***************************************************************************)
(* String primitives                                                       *)
(***************************************************************************)
IsWhite(c) == c \in {9, 10, 11, 12, 13, 32}

\* String.prototype.toLowerCase on ASCII text
LowerChar(c) == IF c >= 65 /\ c <= 90 THEN c + 32 ELSE c
toLowerCase(s) == [i \in 1..Len(s) |-> LowerChar(s[i])]

RECURSIVE TrimStart(_)
TrimStart(s) == IF s # <<>> /\ IsWhite(Head(s)) THEN TrimStart(Tail(s)) ELSE s

RECURSIVE TrimEnd(_)
TrimEnd(s) ==
    IF s # <<>> /\ IsWhite(s[Len(s)]) THEN TrimEnd(SubSeq(s, 1, Len(s) - 1)) ELSE s

\* String.prototype.trim
trim(s) == TrimEnd(TrimStart(s))

\* String.prototype.split with a one-character separator
RECURSIVE SplitFrom(_, _, _)
SplitFrom(s, sep, cur) ==
    IF s = <<>> THEN <<cur>>
    ELSE IF Head(s) = sep THEN <<cur>> \o SplitFrom(Tail(s), sep, <<>>)
    ELSE SplitFrom(Tail(s), sep, Append(cur, Head(s)))

split(s, sep) == SplitFrom(s, sep, <<>>)

\* String.prototype.includes: sub occurs in s as a contiguous substring
includes(s, sub) ==
    \E i \in 0..(Len(s) - Len(sub)) : SubSeq(s, i + 1, i + Len(sub)) = sub

\* Array.prototype.includes on an array of strings
arrayIncludes(arr, x) == \E i \in 1..Len(arr) : arr[i] = x

\* Array.prototype.join with "," (String(array))
RECURSIVE join(_)
join(a) ==
    IF a = <<>> THEN <<>>
    ELSE IF Len(a) = 1 THEN a[1]
    ELSE a[1] \o <<44>> \o join(Tail(a))

\* Number.prototype.toString for an integer (decimal digits, leading "-")
RECURSIVE DigitsOf(_)
DigitsOf(n) == IF n < 10 THEN <<48 + n>> ELSE Append(DigitsOf(n \div 10), 48 + (n % 10))

numberToString(n) == IF n < 0 THEN <<45>> \o DigitsOf(-n) ELSE DigitsOf(n)

(***************************************************************************)
(* parseInt(string) with no radix argument                                 *)
(***************************************************************************)
DigitVal(c) ==
    CASE c >= 48 /\ c <= 57 -> c - 48
      [] c >= 97 /\ c <= 122 -> c - 87
      [] c >= 65 /\ c <= 90 -> c - 55
      [] OTHER -> 99

\* the longest prefix of s made of digits of the radix, folded to its value
RECURSIVE ParseDigits(_, _, _, _)
ParseDigits(s, radix, acc, seen) ==
    IF s # <<>> /\ DigitVal(Head(s)) < radix
    THEN ParseDigits(Tail(s), radix, acc * radix + DigitVal(Head(s)), TRUE)
    ELSE [seen |-> seen, v |-> acc]

parseIntString(s) ==
    LET t == TrimStart(s)
        neg == t # <<>> /\ Head(t) = 45
        u == IF t # <<>> /\ Head(t) \in {43, 45} THEN Tail(t) ELSE t
        hex == Len(u) >= 2 /\ u[1] = 48 /\ u[2] \in {120, 88}
        body == IF hex THEN SubSeq(u, 3, Len(u)) ELSE u
        r == ParseDigits(body, IF hex THEN 16 ELSE 10, 0, FALSE)
    IN IF r.seen THEN Num(IF neg THEN -(r.v) ELSE r.v) ELSE NaN

\* "[object Object]"
ObjectString == <<91, 111, 98, 106, 101, 99, 116, 32, 79, 98, 106, 101, 99, 116, 93>>
\* "undefined"
UndefinedString == <<117, 110, 100, 101, 102, 105, 110, 101, 100>>

\* ToString of a query value
toString(x) ==
    CASE x.kind = "string" -> x.s
      [] x.kind = "array" -> join(x.a)
      [] x.kind = "object" -> ObjectString
      [] OTHER -> UndefinedString

\* parseInt(x): the argument is first converted to a string
parseInt(x) == parseIntString(toString(x))

(***************************************************************************)
(* Buffer: base64 and utf8                                                 *)
(***************************************************************************)
\* the base64 alphabet: character code of a 6-bit value
B64Char(v) ==
    CASE v < 26 -> 65 + v
      [] v < 52 -> 97 + (v - 26)
      [] v < 62 -> 48 + (v - 52)
      [] v = 62 -> 43
      [] OTHER -> 47

\* 6-bit value of a character; 64 for a character outside the alphabet
\* (the decoder also reads the url-safe "-" and "_")
unbase64(c) ==
    CASE c >= 65 /\ c <= 90 -> c - 65
      [] c >= 97 /\ c <= 122 -> c - 97 + 26
      [] c >= 48 /\ c <= 57 -> c - 48 + 52
      [] c \in {43, 45} -> 62
      [] c \in {47, 95} -> 63
      [] OTHER -> 64

\* Buffer.prototype.toString('base64'): 3 bytes to 4 characters, "=" padded
RECURSIVE base64Encode(_)
base64Encode(b) ==
    CASE Len(b) = 0 -> <<>>
      [] Len(b) = 1 ->
           <<B64Char(b[1] \div 4), B64Char((b[1] % 4) * 16), 61, 61>>
      [] Len(b) = 2 ->
           <<B64Char(b[1] \div 4), B64Char((b[1] % 4) * 16 + b[2] \div 16),
             B64Char((b[2] % 16) * 4), 61>>
      [] OTHER ->
           <<B64Char(b[1] \div 4), B64Char((b[1] % 4) * 16 + b[2] \div 16),
             B64Char((b[2] % 16) * 4 + b[3] \div 64), B64Char(b[3] % 64)>>
           \o base64Encode(SubSeq(b, 4, Len(b)))

\* the 6-bit values the decoder reads: it stops at the first "=" and skips
\* every character outside the alphabet
RECURSIVE Sextets(_)
Sextets(s) ==
    IF s = <<>> \/ Head(s) = 61 THEN <<>>
    ELSE IF unbase64(Head(s)) < 64 THEN <<unbase64(Head(s))>> \o Sextets(Tail(s))
    ELSE Sextets(Tail(s))

\* a decoder that keeps whole groups of 4 values only
RECURSIVE SextetsToBytesWholeGroups(_)
SextetsToBytesWholeGroups(v) ==
    IF Len(v) <= 3 THEN <<>>
    ELSE <<v[1] * 4 + v[2] \div 16, (v[2] % 16) * 16 + v[3] \div 4,
           (v[3] % 4) * 64 + v[4]>>
         \o SextetsToBytesWholeGroups(SubSeq(v, 5, Len(v)))

\* 4 values to 3 bytes; a trailing group of 2 gives 1 byte, of 3 gives 2, of 1 none
RECURSIVE SextetsToBytes(_)
SextetsToBytes(v) ==
    CASE Len(v) <= 1 -> <<>>
      [] Len(v) = 2 -> <<v[1] * 4 + v[2] \div 16>>
      [] Len(v) = 3 -> <<v[1] * 4 + v[2] \div 16, (v[2] % 16) * 16 + v[3] \div 4>>
      [] OTHER ->
           <<v[1] * 4 + v[2] \div 16, (v[2] % 16) * 16 + v[3] \div 4,
             (v[3] % 4) * 64 + v[4]>>
           \o SextetsToBytes(SubSeq(v, 5, Len(v)))

\* Buffer.from(string, 'base64')
base64Decode(s) == SextetsToBytes(Sextets(s))

\* Buffer.from(string): the utf8 bytes of ASCII text
utf8Bytes(s) == s

\* Buffer.prototype.toString(): a byte below 128 is its character; any other
\* byte is shown as U+FFFD (multi-byte sequences are not decoded here, none
\* of them yields a digit or a sign)
utf8String(b) == [i \in 1..Len(b) |-> IF b[i] < 128 THEN b[i] ELSE 65533]

\* ToNumber(element) & 255 for an element of an array given to Buffer.from:
\* a string of decimal digits is its value, any other text is NaN, stored as 0
ElementByte(s) ==
    LET t == trim(s)
        r == ParseDigits(t, 10, 0, FALSE)
        allDigits == t # <<>> /\ \A i \in 1..Len(t) : DigitVal(t[i]) < 10
    IN IF allDigits THEN r.v % 256 ELSE 0

\* Buffer.from(array)
bytesFromArray(a) == [i \in 1..Len(a) |-> ElementByte(a[i])]

(***************************************************************************)
(* Array.prototype.slice, with ToIntegerOrInfinity of its arguments        *)
(***************************************************************************)
Min(a, b) == IF a < b THEN a ELSE b
Max(a, b) == IF a > b THEN a ELSE b

\* NaN becomes 0; a negative index counts from the end; both are clamped
RelativeIndex(len, x) ==
    LET i == IF x.nan THEN 0 ELSE x.v
    IN IF i < 0 THEN Max(len + i, 0) ELSE Min(i, len)

slice(arr, start, end) ==
    LET k == RelativeIndex(Len(arr), start)
        final == RelativeIndex(Len(arr), end)
    IN IF final > k THEN SubSeq(arr, k + 1, final) ELSE <<>>

\* number + integer, and number < integer (any comparison with NaN is false)
Plus(x, n) == IF x.nan THEN NaN ELSE Num(x.v + n)
LessThan(x, n) == ~x.nan /\ x.v < n

(***************************************************************************)
(* The catalog (src/data/mcpServers.js).  Descriptors keep the fields the  *)
(* handlers read or return by name; description, author, license,          *)
(* homepage, repository, deployment and documentation are payload that no  *)
(* handler inspects, and tools are kept by name.                           *)
(***************************************************************************)
\* id "github-mcp-server", version "1.0.0"
\* capabilities: repository-management, issue-management, pull-request-management, branch-management, file-management, release-management
\* tools (by name): get_repository, list_repositories, create_repository, list_branches, create_branch, delete_branch, create_issue, list_issues, create_pull_request, merge_pull_request, update_file, create_release
\* tags: github, version-control, collaboration, development
GithubServer ==
    [id |-> <<103, 105, 116, 104, 117, 98, 45, 109, 99, 112, 45, 115, 101, 114, 118, 101, 114>>,
     name |-> "GitHub MCP Server",
     version |-> <<49, 46, 48, 46, 48>>,
     configuration |-> [command |-> "npx", args |-> <<"@github/github-mcp-server">>, env |-> <<<<"GITHUB_TOKEN", "{GITHUB_TOKEN}">>>>],
     capabilities |-> <<
        <<114, 101, 112, 111, 115, 105, 116, 111, 114, 121, 45, 109, 97, 110, 97, 103, 101, 109, 101, 110, 116>>,
        <<105, 115, 115, 117, 101, 45, 109, 97, 110, 97, 103, 101, 109, 101, 110, 116>>,
        <<112, 117, 108, 108, 45, 114, 101, 113, 117, 101, 115, 116, 45, 109, 97, 110, 97, 103, 101, 109, 101, 110, 116>>,
        <<98, 114, 97, 110, 99, 104, 45, 109, 97, 110, 97, 103, 101, 109, 101, 110, 116>>,
        <<102, 105, 108, 101, 45, 109, 97, 110, 97, 103, 101, 109, 101, 110, 116>>,
        <<114, 101, 108, 101, 97, 115, 101, 45, 109, 97, 110, 97, 103, 101, 109, 101, 110, 116>> >>,
     tools |-> <<"get_repository",
        "list_repositories",
        "create_repository",
        "list_branches",
        "create_branch",
        "delete_branch",
        "create_issue",
        "list_issues",
        "create_pull_request",
        "merge_pull_request",
        "update_file",
        "create_release">>,
     tags |-> <<
        <<103, 105, 116, 104, 117, 98>>,
        <<118, 101, 114, 115, 105, 111, 110, 45, 99, 111, 110, 116, 114, 111, 108>>,
        <<99, 111, 108, 108, 97, 98, 111, 114, 97, 116, 105, 111, 110>>,
        <<100, 101, 118, 101, 108, 111, 112, 109, 101, 110, 116>> >>]

\* id "playwright-mcp-server", version "0.0.39"
\* capabilities: browser-automation, web-testing, screenshot-capture, form-interaction, navigation, accessibility-testing
\* tools (by name): browser_navigate, browser_click, browser_type, browser_snapshot, browser_take_screenshot, browser_fill_form, browser_select_option, browser_wait_for, browser_evaluate, browser_console_messages, browser_network_requests, browser_tabs
\* tags: playwright, browser-automation, testing, web-scraping, accessibility
PlaywrightServer ==
    [id |-> <<112, 108, 97, 121, 119, 114, 105, 103, 104, 116, 45, 109, 99, 112, 45, 115, 101, 114, 118, 101, 114>>,
     name |-> "Playwright MCP Server",
     version |-> <<48, 46, 48, 46, 51, 57>>,
     configuration |-> [command |-> "npx", args |-> <<"@playwright/mcp@latest">>, env |-> <<>>],
     capabilities |-> <<
        <<98, 114, 111, 119, 115, 101, 114, 45, 97, 117, 116, 111, 109, 97, 116, 105, 111, 110>>,
        <<119, 101, 98, 45, 116, 101, 115, 116, 105, 110, 103>>,
        <<115, 99, 114, 101, 101, 110, 115, 104, 111, 116, 45, 99, 97, 112, 116, 117, 114, 101>>,
        <<102, 111, 114, 109, 45, 105, 110, 116, 101, 114, 97, 99, 116, 105, 111, 110>>,
        <<110, 97, 118, 105, 103, 97, 116, 105, 111, 110>>,
        <<97, 99, 99, 101, 115, 115, 105, 98, 105, 108, 105, 116, 121, 45, 116, 101, 115, 116, 105, 110, 103>> >>,
     tools |-> <<"browser_navigate",
        "browser_click",
        "browser_type",
        "browser_snapshot",
        "browser_take_screenshot",
        "browser_fill_form",
        "browser_select_option",
        "browser_wait_for",
        "browser_evaluate",
        "browser_console_messages",
        "browser_network_requests",
        "browser_tabs">>,
     tags |-> <<
        <<112, 108, 97, 121, 119, 114, 105, 103, 104, 116>>,
        <<98, 114, 111, 119, 115, 101, 114, 45, 97, 117, 116, 111, 109, 97, 116, 105, 111, 110>>,
        <<116, 101, 115, 116, 105, 110, 103>>,
        <<119, 101, 98, 45, 115, 99, 114, 97, 112, 105, 110, 103>>,
        <<97, 99, 99, 101, 115, 115, 105, 98, 105, 108, 105, 116, 121>> >>]

ShippedCatalog == <<GithubServer, PlaywrightServer>>

\* Descriptors of the synthetic catalogs: ids "s1", "s2", ...; tags and
\* capabilities cycle through small pools with mixed letter case.
\* tags: {a, b}, {B, c}, {d}
TagPool == << << <<97>>, <<98>> >>, << <<66>>, <<99>> >>, << <<100>> >> >>
\* capabilities: {xy}, {Yz, w}
CapPool == << << <<120, 121>> >>, << <<89, 122>>, <<119>> >> >>

SyntheticServer(i) ==
    [id |-> <<115>> \o numberToString(i),
     name |-> "synthetic",
     version |-> <<49, 46, 48, 46, 48>>,
     configuration |-> [command |-> "npx", args |-> <<>>, env |-> <<>>],
     capabilities |-> CapPool[((i - 1) % Len(CapPool)) + 1],
     tools |-> <<"tool">>,
     tags |-> TagPool[((i - 1) % Len(TagPool)) + 1]]

SyntheticCatalog(n) == [i \in 1..n |-> SyntheticServer(i)]

\* the catalogs the process may have been started with
Catalogs == {ShippedCatalog} \cup {SyntheticCatalog(n) : n \in 1..MaxCatalog}

(***************************************************************************)
(* Responses                                                               *)
(***************************************************************************)
NoResponse == [status |-> 0, kind |-> "none", success |-> FALSE]

\* res.json({success: true, data: {servers, total, limit, cursor}})
ListOk(servers, total, limit, cursor) ==
    [status |-> 200, kind |-> "list", success |-> TRUE,
     servers |-> servers, total |-> total, limit |-> limit, cursor |-> cursor]

\* res.status(s).json({success: false, error: {message, code, details}});
\* "" stands for a field that is not in the body
ErrorResponse(status, message, code, details) ==
    [status |-> status, kind |-> "error", success |-> FALSE,
     message |-> message, code |-> code, details |-> details]

\* the catch block of every route handler: the exception text is always sent
InternalError(details) == ErrorResponse(500, "Internal server error", "", details)

ServerNotFound == ErrorResponse(404, "MCP server not found", "SERVER_NOT_FOUND", "")

(***************************************************************************)
(* GET /  (the list endpoint)                                              *)
(***************************************************************************)
\* filterTags = req.query.tags.split(',').map(tag => tag.trim().toLowerCase())
FilterTags(tags) ==
    LET parts == split(tags, 44)
    IN [i \in 1..Len(parts) |-> toLowerCase(trim(parts[i]))]

\* a tag filter that wants every requested tag (AND within the tag list)
TagMatchesAll(server, filterTags) ==
    \A j \in 1..Len(filterTags) :
        \E i \in 1..Len(server.tags) : toLowerCase(server.tags[i]) = filterTags[j]

\* server.tags.some(tag => filterTags.includes(tag.toLowerCase()))
TagMatches(server, filterTags) ==
    \E i \in 1..Len(server.tags) : arrayIncludes(filterTags, toLowerCase(server.tags[i]))

\* a capability filter that wants the whole capability to equal the request
CapabilityEquals(server, capability) ==
    \E i \in 1..Len(server.capabilities) :
        toLowerCase(server.capabilities[i]) = capability

\* server.capabilities.some(cap => cap.toLowerCase().includes(capability))
CapabilityMatches(server, capability) ==
    \E i \in 1..Len(server.capabilities) :
        includes(toLowerCase(server.capabilities[i]), capability)

\* the two filter blocks, applied one after the other to a copy of the catalog
FilterByTags(servers, tags) ==
    IF Truthy(tags)
    THEN LET filterTags == FilterTags(tags.s)
         IN SelectSeq(servers, LAMBDA server : TagMatches(server, filterTags))
    ELSE servers

\* a capability filter that collects the matches last to first
FilterByCapabilityReversed(servers, capability) ==
    IF Truthy(capability)
    THEN LET cap == toLowerCase(capability.s)
             kept == SelectSeq(servers, LAMBDA server : CapabilityMatches(server, cap))
         IN [i \in 1..Len(kept) |-> kept[Len(kept) + 1 - i]]
    ELSE servers

\* filteredServers.filter(server => server.capabilities.some(...))
FilterByCapability(servers, capability) ==
    IF Truthy(capability)
    THEN LET cap == toLowerCase(capability.s)
         IN SelectSeq(servers, LAMBDA server : CapabilityMatches(server, cap))
    ELSE servers

\* a capability block that filters the catalog again, dropping the tag filter
FilteredServersCapabilityOnly(catalog, tags, capability) ==
    IF Truthy(capability)
    THEN FilterByCapability(catalog, capability)
    ELSE FilterByTags(catalog, tags)

FilteredServers(catalog, tags, capability) ==
    FilterByCapability(FilterByTags(catalog, tags), capability)

\* .split and .toLowerCase exist on strings only: any other truthy value throws
TagsThrows(q) == Truthy(q.tags) /\ q.tags.kind # "string"
CapabilityThrows(q) == Truthy(q.capability) /\ q.capability.kind # "string"

\* const limit = Math.min(parseInt(req.query.limit) || 50, 100)
EffectiveLimit(limit) ==
    LET p == parseInt(limit)
        v == IF p.nan \/ p.v = 0 THEN 50 ELSE p.v
    IN Min(v, 100)

\* offset = parseInt(Buffer.from(cursor, 'base64').toString()); Buffer.from
\* throws on a plain object, and the catch block then sets offset = 0
DecodeOffset(cursor) ==
    CASE cursor.kind = "string" -> parseIntString(utf8String(base64Decode(cursor.s)))
      [] cursor.kind = "array" -> parseIntString(utf8String(bytesFromArray(cursor.a)))
      [] OTHER -> Num(0)

\* a handler that starts again at 0 when a filter is given
RequestOffsetFreshUnderFilter(q) ==
    IF Truthy(q.cursor) /\ ~Truthy(q.tags) /\ ~Truthy(q.capability)
    THEN DecodeOffset(q.cursor) ELSE Num(0)

\* let offset = 0; if (cursor) { ... }
RequestOffset(q) == IF Truthy(q.cursor) THEN DecodeOffset(q.cursor) ELSE Num(0)

\* Buffer.from(nextOffset.toString()).toString('base64')
EncodeCursor(n) == base64Encode(utf8Bytes(numberToString(n)))

\* nextOffset < total ? encode(nextOffset) : null
NextCursor(offset, limit, total) ==
    LET nextOffset == Plus(offset, limit)
    IN IF LessThan(nextOffset, total) THEN Str(EncodeCursor(nextOffset.v)) ELSE Null

\* a page whose end index is taken as inclusive
PaginateInclusive(filtered, offset, limit) ==
    slice(filtered, offset, Plus(offset, limit + 1))

\* filteredServers.slice(offset, offset + limit)
Paginate(filtered, offset, limit) == slice(filtered, offset, Plus(offset, limit))

\* a list handler that reports the size of the page as total
ListServersTotalOfPage(catalog, q) ==
    IF TagsThrows(q)
    THEN InternalError("req.query.tags.split is not a function")
    ELSE IF CapabilityThrows(q)
    THEN InternalError("req.query.capability.toLowerCase is not a function")
    ELSE LET filtered == FilteredServers(catalog, q.tags, q.capability)
             limit == EffectiveLimit(q.limit)
             total == Len(filtered)
             offset == RequestOffset(q)
             page == Paginate(filtered, offset, limit)
         IN ListOk(page, Len(page), limit, NextCursor(offset, limit, total))

\* router.get('/'): filter, limit, total, offset, page, next cursor
ListServers(catalog, q) ==
    IF TagsThrows(q)
    THEN InternalError("req.query.tags.split is not a function")
    ELSE IF CapabilityThrows(q)
    THEN InternalError("req.query.capability.toLowerCase is not a function")
    ELSE LET filtered == FilteredServers(catalog, q.tags, q.capability)
             limit == EffectiveLimit(q.limit)
             total == Len(filtered)
             offset == RequestOffset(q)
         IN ListOk(Paginate(filtered, offset, limit), total, limit,
                   NextCursor(offset, limit, total))

(***************************************************************************)
(* GET /:id, GET /:id/config, GET /:id/tools                               *)
(***************************************************************************)
\* mcpServers.find(s => s.id === id): index of the first match, 0 for undefined
RECURSIVE FindFrom(_, _, _)
FindFrom(catalog, id, i) ==
    IF i > Len(catalog) THEN 0
    ELSE IF catalog[i].id = id THEN i
    ELSE FindFrom(catalog, id, i + 1)

find(catalog, id) == FindFrom(catalog, id, 1)

\* "Requested version "
NoteHead == <<82, 101, 113, 117, 101, 115, 116, 101, 100, 32, 118, 101, 114, 115, 105, 111, 110, 32>>
\* " not available. Returning current version "
NoteMiddle ==
    <<32, 110, 111, 116, 32, 97, 118, 97, 105, 108, 97, 98, 108, 101, 46, 32, 82, 101,
      116, 117, 114, 110, 105, 110, 103, 32, 99, 117, 114, 114, 101, 110, 116, 32, 118,
      101, 114, 115, 105, 111, 110, 32>>

\* a note that tells the current version only
VersionNoteActualOnly(requestedVersion, server) ==
    NoteHead \o NoteMiddle \o server.version \o <<46>>

\* `Requested version ${requestedVersion} not available. Returning current version ${server.version}.`
VersionNote(requestedVersion, server) ==
    NoteHead \o toString(requestedVersion) \o NoteMiddle \o server.version \o <<46>>

\* a comparison that does not test that a version was requested
VersionDiffersUnguarded(requestedVersion, server) ==
    ~(requestedVersion.kind = "string" /\ requestedVersion.s = server.version)

\* requestedVersion && requestedVersion !== server.version
VersionDiffers(requestedVersion, server) ==
    Truthy(requestedVersion)
    /\ ~(requestedVersion.kind = "string" /\ requestedVersion.s = server.version)

\* a handler that writes the note into the descriptor of the catalog itself
\* (responseServer = server)
CatalogAfterGetServerAliased(catalog, id, q) ==
    LET i == find(catalog, id)
    IN IF i # 0 /\ VersionDiffers(q.version, catalog[i])
       THEN [catalog EXCEPT ![i] =
                [f \in DOMAIN catalog[i] \cup {"versionNote"} |->
                    IF f = "versionNote" THEN VersionNote(q.version, catalog[i])
                    ELSE catalog[i][f]]]
       ELSE catalog

\* a handler that moves the descriptor it served to the end of the catalog
CatalogAfterGetServerMovedLast(catalog, id, q) ==
    LET i == find(catalog, id)
    IN IF i = 0 THEN catalog
       ELSE SubSeq(catalog, 1, i - 1) \o SubSeq(catalog, i + 1, Len(catalog)) \o <<catalog[i]>>

\* the catalog after GET /:id: let responseServer = { ...server } is a fresh
\* object, so responseServer.versionNote = ... writes to the copy only
CatalogAfterGetServer(catalog, id, q) == catalog

\* responseServer = {...server}, with versionNote added on a mismatch
GetServer(catalog, id, q) ==
    LET i == find(catalog, id)
    IN IF i = 0 THEN ServerNotFound
       ELSE [status |-> 200, kind |-> "server", success |-> TRUE,
             server |-> catalog[i],
             versionNote |-> IF VersionDiffers(q.version, catalog[i])
                             THEN Str(VersionNote(q.version, catalog[i]))
                             ELSE Undefined]

\* a format check that ignores letter case
FormatIsJsonAnyCase(format) ==
    ~Truthy(format)
    \/ (format.kind = "string" /\ toLowerCase(format.s) = <<106, 115, 111, 110>>)

\* format = req.query.format || 'json'; only format === 'json' is served
FormatIsJson(format) ==
    ~Truthy(format) \/ (format.kind = "string" /\ format.s = <<106, 115, 111, 110>>)

\* a config handler that checks the format before it looks the id up
GetConfigFormatFirst(catalog, id, q) ==
    IF ~FormatIsJson(q.format)
    THEN ErrorResponse(400, "Unsupported format. Only json is currently supported.",
                       "UNSUPPORTED_FORMAT", "")
    ELSE LET i == find(catalog, id)
         IN IF i = 0 THEN ServerNotFound
            ELSE [status |-> 200, kind |-> "config", success |-> TRUE,
                  configuration |-> catalog[i].configuration]

GetConfig(catalog, id, q) ==
    LET i == find(catalog, id)
    IN IF i = 0 THEN ServerNotFound
       ELSE IF FormatIsJson(q.format)
       THEN [status |-> 200, kind |-> "config", success |-> TRUE,
             configuration |-> catalog[i].configuration]
       ELSE ErrorResponse(400, "Unsupported format. Only json is currently supported.",
                          "UNSUPPORTED_FORMAT", "")

\* a tools handler that reads the first descriptor of the catalog
GetToolsOfFirst(catalog, id) ==
    LET i == find(catalog, id)
    IN IF i = 0 THEN ServerNotFound
       ELSE [status |-> 200, kind |-> "tools", success |-> TRUE,
             tools |-> catalog[1].tools]

\* router.get('/:id/tools')
GetTools(catalog, id) ==
    LET i == find(catalog, id)
    IN IF i = 0 THEN ServerNotFound
       ELSE [status |-> 200, kind |-> "tools", success |-> TRUE,
             tools |-> catalog[i].tools]

(***************************************************************************)
(* Requests a client may send                                              *)
(***************************************************************************)
\* tags: absent, "", "b", "b,c", " A ,zz", "Testing, GITHUB", and the array
\* the query parser builds from tags=a&tags=b
TagsInputs ==
    {Undefined, Str(<<>>), Str(<<98>>), Str(<<98, 44, 99>>),
     Str(<<32, 65, 32, 44, 122, 122>>),
     Str(<<84, 101, 115, 116, 105, 110, 103, 44, 32, 71, 73, 84, 72, 85, 66>>),
     Arr(<< <<97>>, <<98>> >>)}

\* capability: absent, "y", "XY", "MANAGE", and the object the query parser
\* builds from capability[k]=v
CapabilityInputs ==
    {Undefined, Str(<<121>>), Str(<<88, 89>>), Str(<<77, 65, 78, 65, 71, 69>>), Obj}

\* limit: absent, "-1" .. MaxLimit, "abc", "150", and the array from limit=2&limit=1
LimitInputs ==
    {Undefined, Str(<<97, 98, 99>>), Str(<<49, 53, 48>>), Arr(<< <<50>>, <<49>> >>)}
    \cup {Str(numberToString(n)) : n \in (-1)..MaxLimit}

\* cursor: absent, "", the cursors of offsets 0..MaxOffset, "abc" (no number
\* in its decoded text), the cursor of "-1", an object, and the array from
\* cursor=49
CursorInputs ==
    {Undefined, Str(<<>>), Str(<<97, 98, 99>>), Str(EncodeCursor(-1)), Obj,
     Arr(<< <<52, 57>> >>)}
    \cup {Str(EncodeCursor(n)) : n \in 0..MaxOffset}

\* path ids: every id of the catalog, and ids of no descriptor:
\* "does-not-exist", "S1" (letter case differs), "github"
UnknownIds ==
    {<<100, 111, 101, 115, 45, 110, 111, 116, 45, 101, 120, 105, 115, 116>>,
     <<83, 49>>, <<103, 105, 116, 104, 117, 98>>}

IdInputs(catalog) == {catalog[i].id : i \in 1..Len(catalog)} \cup UnknownIds

\* version: absent, "" (from ?version=), "1.0.0", "2.0.0"
VersionInputs ==
    {Undefined, Str(<<>>), Str(<<49, 46, 48, 46, 48>>), Str(<<50, 46, 48, 46, 48>>)}

\* format: absent, "" (from ?format=), "json", "yaml", "JSON", and the array
\* from format=json&format=json
FormatInputs ==
    {Undefined, Str(<<>>), Str(<<106, 115, 111, 110>>), Str(<<121, 97, 109, 108>>),
     Str(<<74, 83, 79, 78>>), Arr(<< <<106, 115, 111, 110>>, <<106, 115, 111, 110>> >>)}

\* req.query; offset is a parameter the documentation names
Query(tags, capability, limit, cursor, version, format) ==
    [tags |-> tags, capability |-> capability, limit |-> limit, cursor |-> cursor,
     version |-> version, format |-> format, offset |-> Undefined]

ListQuery(tags, capability, limit, cursor) ==
    Query(tags, capability, limit, cursor, Undefined, Undefined)

Request(route, id, query) == [route |-> route, id |-> id, query |-> query]

NoRequest ==
    Request("none", <<>>, ListQuery(Undefined, Undefined, Undefined, Undefined))

\* every request a client may send to a process started with this catalog
ListRequests ==
    {Request("list", <<>>, ListQuery(tags, capability, limit, cursor)) :
        tags \in TagsInputs, capability \in CapabilityInputs,
        limit \in LimitInputs, cursor \in CursorInputs}

IdRequests(catalog) ==
    {Request(route, id, Query(Undefined, Undefined, Undefined, Undefined, version, format)) :
        route \in {"server", "config", "tools"}, id \in IdInputs(catalog),
        version \in VersionInputs, format \in FormatInputs}

Requests(catalog) == ListRequests \cup IdRequests(catalog)

(***************************************************************************)
(* The applications: src/index.js and src/index-https.js register the same *)
(* handlers under different paths.  A process is an entry point started    *)
(* with a value of NODE_ENV ("" stands for the variable being unset).      *)
(***************************************************************************)
Entries == {"index.js", "index-https.js"}

NodeEnvs == {"", "development", "production"}

Process(entry, nodeEnv) == [entry |-> entry, nodeEnv |-> nodeEnv]

Apps == {Process(entry, nodeEnv) : entry \in Entries, nodeEnv \in NodeEnvs}

\* the router's handlers read neither the entry point nor the environment:
\* the process a request to the router alone is served by
RouterProcess == Process("index-https.js", "")

\* app.get('/health', ...) in index.js, app.get('/api/v0/health', ...) in index-https.js
HealthPath(a) == IF a.entry = "index.js" THEN "/health" ELSE "/api/v0/health"

\* app.use('/api/mcp-servers', mcpServersRouter) in index.js,
\* app.use('/api/v0/servers', mcpServersRouter) in index-https.js
MountPath(a) == IF a.entry = "index.js" THEN "/api/mcp-servers" ELSE "/api/v0/servers"

\* the body of the health endpoint
HealthOk(a) ==
    [status |-> 200, kind |-> "health", health |-> "healthy",
     environment |-> IF a.nodeEnv = "" THEN "development" ELSE a.nodeEnv]

\* the body of GET /: name, description, version, documentation, endpoints, examples
RootOk(a) ==
    [status |-> 200, kind |-> "root", name |-> "Dynamic MCP Registry API",
     documentation |-> [openapi |-> "/api/docs", health |-> HealthPath(a)],
     allServers |-> MountPath(a)]

\* the OpenAPI document of GET /api/docs, with the query parameters it
\* documents for the list endpoint
DocsOk(a) ==
    [status |-> 200, kind |-> "docs", openapi |-> "3.0.3", listPath |-> MountPath(a),
     listParameters |-> IF a.entry = "index.js"
                        THEN {"tags", "capability", "limit", "offset"}
                        ELSE {"tags", "capability", "limit", "cursor"}]

\* the cors middleware ends a preflight: 204, no body
PreflightOk == [status |-> 204, kind |-> "preflight"]

\* a 404 in plain text, as the framework sends it when no handler answers
EndpointNotFoundPlain == [status |-> 404, kind |-> "plain"]

\* app.use('*', ...): the 404 handler
EndpointNotFound == ErrorResponse(404, "Endpoint not found", "NOT_FOUND", "")

\* the global error handler: details only when NODE_ENV === 'development'
GlobalError(a, message) ==
    ErrorResponse(500, "Internal server error", "",
                  IF a.nodeEnv = "development" THEN message ELSE "")

\* the top-level keys of the JSON body a response carries
BodyKeys(resp) ==
    CASE resp.kind \in {"list", "server", "config", "tools"} -> {"success", "data"}
      [] resp.kind = "error" -> {"success", "error"}
      [] resp.kind = "health" -> {"status", "timestamp", "version", "environment"}
      [] resp.kind = "root" ->
            {"name", "description", "version", "documentation", "endpoints", "examples"}
      [] resp.kind = "docs" -> {"openapi", "info", "servers", "paths", "components"}
      [] OTHER -> {}

\* a path parameter is percent-decoded before the handler sees it
\* (req.params.id); the escapes of the inputs are ASCII
RECURSIVE DecodeFrom(_, _)
DecodeFrom(raw, i) ==
    IF i > Len(raw) THEN <<>>
    ELSE IF raw[i] = 37
    THEN <<16 * DigitVal(raw[i + 1]) + DigitVal(raw[i + 2])>> \o DecodeFrom(raw, i + 3)
    ELSE <<raw[i]>> \o DecodeFrom(raw, i + 1)

DecodeParam(raw) == DecodeFrom(raw, 1)

\* a '%' that is not followed by two hexadecimal digits: decoding throws, and
\* the error goes to the global error handler
DecodeParamFails(raw) ==
    \E i \in 1..Len(raw) :
        /\ raw[i] = 37
        /\ ~(i + 2 <= Len(raw) /\ DigitVal(raw[i + 1]) < 16 /\ DigitVal(raw[i + 2]) < 16)

\* a request to an application: method, the path matched by the application
\* (for a request into the router: the mount path), and the part the router
\* matches: route, the raw id segment, the query; body is "none", or
\* "malformed" for a JSON body that express.json cannot parse
AppRequest(method, path, r) ==
    [method |-> method, path |-> path, route |-> r.route, id |-> r.id, query |-> r.query,
     body |-> "none"]

NoQuery == ListQuery(Undefined, Undefined, Undefined, Undefined)

\* requests to paths outside the router: /, both health paths, /api/docs, and
\* a path no application registers
TopPaths == {"/", "/health", "/api/v0/health", "/api/docs", "/nowhere"}

\* both mount paths
MountPaths == {"/api/mcp-servers", "/api/v0/servers"}

Methods == {"GET", "POST", "OPTIONS"}

\* raw id segments: the first id of the shipped and of the synthetic
\* catalogs, "does-not-exist", "%", and "s%31" (the escaped spelling of "s1")
RawIds ==
    {GithubServer.id, SyntheticServer(1).id,
     <<100, 111, 101, 115, 45, 110, 111, 116, 45, 101, 120, 105, 115, 116>>,
     <<37>>, <<115, 37, 51, 49>>}

\* list queries: none, limit=1, tags=b, the array tags=a&tags=b, the cursor
\* of offset 1 with limit=1, offset=0, offset=1, offset=1 with limit=1
ListSamples ==
    {NoQuery,
     ListQuery(Undefined, Undefined, Str(<<49>>), Undefined),
     ListQuery(Str(<<98>>), Undefined, Undefined, Undefined),
     ListQuery(Arr(<< <<97>>, <<98>> >>), Undefined, Undefined, Undefined),
     ListQuery(Undefined, Undefined, Str(<<49>>), Str(EncodeCursor(1))),
     [NoQuery EXCEPT !.offset = Str(<<48>>)],
     [NoQuery EXCEPT !.offset = Str(<<49>>)],
     [NoQuery EXCEPT !.offset = Str(<<49>>), !.limit = Str(<<49>>)]}

\* what the router is asked: the list, a descriptor (version absent, "",
\* "1.0.0", "2.0.0"), its config (with and without a format), its tools, and
\* a path under an id that the router does not register
RouterSamples ==
    {Request("list", <<>>, q) : q \in ListSamples}
    \cup {Request("server", id, Query(Undefined, Undefined, Undefined, Undefined, v, Undefined)) :
            id \in RawIds,
            v \in {Undefined, Str(<<>>), Str(<<49, 46, 48, 46, 48>>), Str(<<50, 46, 48, 46, 48>>)}}
    \cup {Request("config", id, Query(Undefined, Undefined, Undefined, Undefined, Undefined, f)) :
            id \in RawIds, f \in {Undefined, Str(<<121, 97, 109, 108>>)}}
    \cup {Request(route, id, NoQuery) :
            route \in {"tools", "unregistered"}, id \in RawIds}

AppRequests ==
    {AppRequest(method, path, Request("none", <<>>, NoQuery)) :
        method \in Methods, path \in TopPaths}
    \cup {AppRequest("GET", path, r) : path \in MountPaths, r \in RouterSamples}
    \cup {AppRequest(method, path, Request("list", <<>>, NoQuery)) :
            method \in {"POST", "OPTIONS"}, path \in MountPaths}
    \cup {[AppRequest("POST", path, Request("none", <<>>, NoQuery)) EXCEPT !.body = "malformed"] :
            path \in {"/nowhere", "/api/docs"}}

\* routes that answer a request of any method where the application only
\* registers GET handlers
RouteAnyMethod(a, r) ==
    IF r.method = "OPTIONS" THEN "preflight"
    ELSE IF r.body = "malformed" THEN "error"
    ELSE IF r.route = "none"
    THEN CASE r.path = HealthPath(a) -> "health"
           [] r.path = "/" -> "root"
           [] r.path = "/api/docs" -> "docs"
           [] OTHER -> "notFound"
    ELSE IF r.path # MountPath(a) THEN "notFound"
    ELSE IF r.route = "list" THEN "list"
    ELSE IF r.route \in {"server", "config", "tools"}
    THEN IF DecodeParamFails(r.id) THEN "error" ELSE r.route
    ELSE "notFound"

\* the handler that answers, in registration order: the cors middleware
\* (it ends every OPTIONS request with 204), express.json (a body it cannot
\* parse goes to the global error handler), health, /, /api/docs, the
\* mounted router, and last the 404 handler
Route(a, r) ==
    IF r.method = "OPTIONS" THEN "preflight"
    ELSE IF r.body = "malformed" THEN "error"
    ELSE IF r.method # "GET" THEN "notFound"
    ELSE IF r.route = "none"
    THEN CASE r.path = HealthPath(a) -> "health"
           [] r.path = "/" -> "root"
           [] r.path = "/api/docs" -> "docs"
           [] OTHER -> "notFound"
    ELSE IF r.path # MountPath(a) THEN "notFound"
    ELSE IF r.route = "list" THEN "list"
    ELSE IF r.route \in {"server", "config", "tools"}
    THEN IF DecodeParamFails(r.id) THEN "error" ELSE r.route
    ELSE "notFound"

(***************************************************************************)
(* A client that follows the cursor chain: after a list request without    *)
(* cursor it keeps tags, capability and limit fixed, sends the cursor of   *)
(* the previous response, and stops at a null cursor (or a failed request).*)
(***************************************************************************)
\* the longest chain a client follows
MaxChain == 6

\* reused: the cursor of the request was obtained under other filters
ChainIdle ==
    [active |-> FALSE, pages |-> <<>>, steps |-> 0, done |-> FALSE, total |-> 0,
     reused |-> FALSE]

\* the chain after a response: the page is appended to what was collected,
\* and the total of the first page is kept
ChainAfter(c, resp) ==
    [active |-> TRUE,
     pages |-> IF resp.kind = "list" THEN c.pages \o resp.servers ELSE c.pages,
     steps |-> c.steps + 1,
     done |-> (resp.kind # "list") \/ (resp.cursor.kind = "null"),
     total |-> IF c.steps = 0 /\ resp.kind = "list" THEN resp.total ELSE c.total,
     reused |-> FALSE]

(***************************************************************************)
(* Listeners.  The handlers are reached through a listener the startup     *)
(* code opened: app.listen(PORT) in index.js and in startHttpServer.       *)
(***************************************************************************)
\* const PORT = process.env.PORT || 3000
PORT == 3000
\* const HTTPS_PORT = process.env.HTTPS_PORT || 3443
HTTPS_PORT == 3443

\* a listening server: its port, its protocol, and what answers on it: the
\* application ("app") or the redirect to HTTPS ("redirect")
Listener(port, protocol, serves) == [port |-> port, protocol |-> protocol, serves |-> serves]

\* startup is over and the application listens on PORT over plain HTTP
HttpOnly == [pc |-> "done", listeners |-> {Listener(PORT, "http", "app")}]

\* the answer carries a versionNote
Noted(resp) == resp.kind = "server" /\ resp.versionNote.kind = "string"

(***************************************************************************)
(* The state machine: a request is in flight to a started process; the     *)
(* matching route handler answers it.                                      *)
(***************************************************************************)
Init ==
    /\ mcpServers \in Catalogs
    /\ loaded = mcpServers
    /\ app = RouterProcess
    /\ request \in Requests(mcpServers)
    /\ response = NoResponse
    /\ served = 0
    /\ chain = ChainIdle
    /\ noted = FALSE
    /\ startup = HttpOnly

Pending(route) == request.route = route /\ response.kind = "none"

\* router.get('/')
List ==
    /\ Pending("list")
    /\ response' = ListServers(mcpServers, request.query)
    /\ chain' = IF request.query.cursor.kind = "undefined"
                THEN ChainAfter(ChainIdle, response')
                ELSE ChainIdle
    /\ served' = served + 1
    /\ UNCHANGED <<mcpServers, loaded, app, request, noted, startup>>

\* router.get('/:id')
GetById ==
    /\ Pending("server")
    /\ response' = GetServer(mcpServers, request.id, request.query)
    /\ mcpServers' = CatalogAfterGetServer(mcpServers, request.id, request.query)
    /\ served' = served + 1
    /\ noted' = (noted \/ Noted(response'))
    /\ UNCHANGED <<loaded, app, request, chain, startup>>

\* router.get('/:id/config')
Config ==
    /\ Pending("config")
    /\ response' = GetConfig(mcpServers, request.id, request.query)
    /\ served' = served + 1
    /\ UNCHANGED <<mcpServers, loaded, app, request, chain, noted, startup>>

\* router.get('/:id/tools')
Tools ==
    /\ Pending("tools")
    /\ response' = GetTools(mcpServers, request.id)
    /\ served' = served + 1
    /\ UNCHANGED <<mcpServers, loaded, app, request, chain, noted, startup>>

\* the client sends the cursor just returned, with the same filters and
\* limit, and router.get('/') answers
FollowCursor ==
    /\ chain.active
    /\ ~chain.done
    /\ chain.steps < MaxChain
    /\ request' = [request EXCEPT !.query.cursor = response.cursor]
    /\ response' = ListServers(mcpServers, request'.query)
    /\ chain' = ChainAfter(chain, response')
    /\ served' = served + 1
    /\ UNCHANGED <<mcpServers, loaded, app, noted, startup>>

Next == List \/ GetById \/ Config \/ Tools \/ FollowCursor

Spec == Init /\ [][Next]_vars

(***************************************************************************)
(* The applications as state machines: clients send requests one after the *)
(* other to a started process, and the handler the routes select answers.  *)
(***************************************************************************)
\* the longest sequence of requests a process is sent
MaxServed == 2

\* the catalogs of the started processes: the shipped one and the largest
\* synthetic one
AppCatalogs == {ShippedCatalog, SyntheticCatalog(MaxCatalog)}

\* the message of the error that reaches the global error handler
ErrorMessage(r) ==
    IF r.body = "malformed" THEN "Unexpected end of JSON input"
    ELSE "Failed to decode param"

AppInit ==
    /\ mcpServers \in AppCatalogs
    /\ loaded = mcpServers
    /\ app \in Apps
    /\ request = NoRequest
    /\ response = NoResponse
    /\ served = 0
    /\ chain = ChainIdle
    /\ noted = FALSE
    /\ startup = HttpOnly

\* a client sends r, and the routes select the handler
Arrives(r, handler) ==
    /\ served < MaxServed
    /\ Route(app, r) = handler
    /\ request' = r
    /\ served' = served + 1
    /\ UNCHANGED <<loaded, app, chain, startup>>

\* app.get('/health') or app.get('/api/v0/health')
AppHealth ==
    \E r \in AppRequests :
        /\ Arrives(r, "health")
        /\ response' = HealthOk(app)
        /\ UNCHANGED <<mcpServers, noted>>

\* app.get('/')
AppRoot ==
    \E r \in AppRequests :
        /\ Arrives(r, "root")
        /\ response' = RootOk(app)
        /\ UNCHANGED <<mcpServers, noted>>

\* app.get('/api/docs')
AppDocs ==
    \E r \in AppRequests :
        /\ Arrives(r, "docs")
        /\ response' = DocsOk(app)
        /\ UNCHANGED <<mcpServers, noted>>

\* router.get('/') of the mounted router
AppList ==
    \E r \in AppRequests :
        /\ Arrives(r, "list")
        /\ response' = ListServers(mcpServers, r.query)
        /\ UNCHANGED <<mcpServers, noted>>

\* router.get('/:id') of the mounted router
AppGetById ==
    \E r \in AppRequests :
        /\ Arrives(r, "server")
        /\ response' = GetServer(mcpServers, DecodeParam(r.id), r.query)
        /\ mcpServers' = CatalogAfterGetServer(mcpServers, DecodeParam(r.id), r.query)
        /\ noted' = (noted \/ Noted(response'))

\* router.get('/:id/config') of the mounted router
AppConfig ==
    \E r \in AppRequests :
        /\ Arrives(r, "config")
        /\ response' = GetConfig(mcpServers, DecodeParam(r.id), r.query)
        /\ UNCHANGED <<mcpServers, noted>>

\* router.get('/:id/tools') of the mounted router
AppTools ==
    \E r \in AppRequests :
        /\ Arrives(r, "tools")
        /\ response' = GetTools(mcpServers, DecodeParam(r.id))
        /\ UNCHANGED <<mcpServers, noted>>

\* the global error handler: the body could not be parsed, or the id
\* segment could not be decoded
AppError ==
    \E r \in AppRequests :
        /\ Arrives(r, "error")
        /\ response' = GlobalError(app, ErrorMessage(r))
        /\ UNCHANGED <<mcpServers, noted>>

\* app.use(cors(...)): an OPTIONS request ends in the middleware
AppPreflight ==
    \E r \in AppRequests :
        /\ Arrives(r, "preflight")
        /\ response' = PreflightOk
        /\ UNCHANGED <<mcpServers, noted>>

\* app.use('*'): no route matched
AppNotFound ==
    \E r \in AppRequests :
        /\ Arrives(r, "notFound")
        /\ response' = EndpointNotFound
        /\ UNCHANGED <<mcpServers, noted>>

AppNext ==
    \/ AppHealth \/ AppRoot \/ AppDocs
    \/ AppList \/ AppGetById \/ AppConfig \/ AppTools
    \/ AppError \/ AppPreflight \/ AppNotFound

AppSpec == AppInit /\ [][AppNext]_vars

(***************************************************************************)
(* Cursors of large offsets: a catalog of MaxRoundTrip descriptors, and a  *)
(* list request that carries the cursor of an offset 0 .. MaxRoundTrip.    *)
(***************************************************************************)
\* the largest offset whose cursor is sent, and the size of the catalog
MaxRoundTrip == 300

\* limit: absent (50), "1", "7"
CursorLimits == {Undefined, Str(<<49>>), Str(<<55>>)}

CursorRequests ==
    {Request("list", <<>>, ListQuery(Undefined, Undefined, limit, Str(EncodeCursor(n)))) :
        limit \in CursorLimits, n \in 0..MaxRoundTrip}

CursorInit ==
    /\ mcpServers = SyntheticCatalog(MaxRoundTrip)
    /\ loaded = mcpServers
    /\ app = RouterProcess
    /\ request \in CursorRequests
    /\ response = NoResponse
    /\ served = 0
    /\ chain = ChainIdle
    /\ noted = FALSE
    /\ startup = HttpOnly

CursorSpec == CursorInit /\ [][List]_vars

(***************************************************************************)
(* A client that reuses a cursor: it lists under one filter combination,   *)
(* and sends a cursor it got together with another filter combination.     *)
(***************************************************************************)
\* tags: absent, "b", "b,c"
ReuseTags == {Undefined, Str(<<98>>), Str(<<98, 44, 99>>)}

\* capability: absent, "y"
ReuseCapabilities == {Undefined, Str(<<121>>)}

\* limit: "1", "2"
ReuseLimits == {Str(<<49>>), Str(<<50>>)}

ReuseInit ==
    /\ mcpServers \in Catalogs
    /\ loaded = mcpServers
    /\ app = RouterProcess
    /\ request \in {Request("list", <<>>, ListQuery(tags, capability, limit, Undefined)) :
                       tags \in ReuseTags, capability \in ReuseCapabilities,
                       limit \in ReuseLimits}
    /\ response = NoResponse
    /\ served = 0
    /\ chain = ChainIdle
    /\ noted = FALSE
    /\ startup = HttpOnly

\* the client sends the cursor just returned with other filters, and
\* router.get('/') answers
ReuseCursor ==
    /\ chain.active
    /\ ~chain.done
    /\ \E tags \in ReuseTags, capability \in ReuseCapabilities :
          /\ <<tags, capability>> # <<request.query.tags, request.query.capability>>
          /\ request' = [request EXCEPT !.query.tags = tags,
                                        !.query.capability = capability,
                                        !.query.cursor = response.cursor]
    /\ response' = ListServers(mcpServers, request'.query)
    /\ chain' = [ChainIdle EXCEPT !.reused = TRUE]
    /\ served' = served + 1
    /\ UNCHANGED <<mcpServers, loaded, app, noted, startup>>

ReuseNext == List \/ FollowCursor \/ ReuseCursor

ReuseSpec == ReuseInit /\ [][ReuseNext]_vars

(***************************************************************************)
(* The answer of the application to a request, as one function of the      *)
(* process, the catalog and the request.                                   *)
(***************************************************************************)
Answer(a, catalog, r) ==
    LET handler == Route(a, r)
    IN CASE handler = "health" -> HealthOk(a)
         [] handler = "root" -> RootOk(a)
         [] handler = "docs" -> DocsOk(a)
         [] handler = "list" -> ListServers(catalog, r.query)
         [] handler = "server" -> GetServer(catalog, DecodeParam(r.id), r.query)
         [] handler = "config" -> GetConfig(catalog, DecodeParam(r.id), r.query)
         [] handler = "tools" -> GetTools(catalog, DecodeParam(r.id))
         [] handler = "error" -> GlobalError(a, ErrorMessage(r))
         [] handler = "preflight" -> PreflightOk
         [] OTHER -> EndpointNotFound

\* the catalog after the application answered the request
CatalogAfter(a, catalog, r) ==
    IF Route(a, r) = "server"
    THEN CatalogAfterGetServer(catalog, DecodeParam(r.id), r.query)
    ELSE catalog

(***************************************************************************)
(* Startup of src/index-https.js: the choice between HTTP and HTTPS, the   *)
(* certificate files, the listeners, and the requests the listeners get.   *)
(***************************************************************************)
\* process.env.USE_HTTPS: unset (""), 'true', 'false'
UseHttpsvalues == {"", "true", "false"}

\* certs/key.pem and certs/cert.pem: not there, there but not readable
\* (readFileSync throws), readable but no valid PEM (https.createServer
\* throws), valid
FileStates == {"absent", "unreadable", "invalid", "valid"}

StartProcess(nodeEnv, useHttps, key, cert) ==
    [entry |-> "index-https.js", nodeEnv |-> nodeEnv, useHttps |-> useHttps,
     key |-> key, cert |-> cert]

\* const USE_HTTPS = process.env.USE_HTTPS === 'true' || process.env.NODE_ENV === 'development'
USE_HTTPS(a) == a.useHttps = "true" \/ a.nodeEnv = "development"

\* !fs.existsSync(keyPath) || !fs.existsSync(certPath)
CertificatesMissing(a) == a.key = "absent" \/ a.cert = "absent"

\* an error in the try block that is only logged
OnStartErrorLogOnly == "done"

\* the catch block of startHttpsServer calls startHttpServer()
OnStartError == "http"

\* the plain-HTTP port serves the application as well
PlainListenerServesApp == Listener(PORT, "http", "app")

\* http.createServer((req, res) => { res.writeHead(301, ...) }).listen(PORT)
RedirectListener == Listener(PORT, "http", "redirect")

\* https.createServer(options, app).listen(HTTPS_PORT)
HttpsListener == Listener(HTTPS_PORT, "https", "app")

\* res.writeHead(301, { Location: `https://localhost:${HTTPS_PORT}${req.url}` })
\* req.url is the path and the query of the request
Redirect(r) ==
    [status |-> 301, kind |-> "redirect",
     location |-> [scheme |-> "https", host |-> "localhost", port |-> HTTPS_PORT,
                   path |-> r.path, route |-> r.route, id |-> r.id, query |-> r.query]]

\* a request sent to a port
PortRequest(port, r) ==
    [method |-> r.method, path |-> r.path, route |-> r.route, id |-> r.id,
     query |-> r.query, body |-> r.body, port |-> port]

\* requests sent to both ports: /, the health path, the list with and
\* without a tags filter, a descriptor, its tools, and a POST to no route
StartRequests ==
    {PortRequest(port, r) :
        port \in {PORT, HTTPS_PORT},
        r \in {AppRequest("GET", "/", Request("none", <<>>, NoQuery)),
               AppRequest("GET", "/api/v0/health", Request("none", <<>>, NoQuery)),
               AppRequest("POST", "/nowhere", Request("none", <<>>, NoQuery)),
               AppRequest("GET", "/api/v0/servers", Request("list", <<>>, NoQuery)),
               AppRequest("GET", "/api/v0/servers",
                          Request("list", <<>>,
                                  ListQuery(Str(<<98>>), Undefined, Undefined, Undefined))),
               AppRequest("GET", "/api/v0/servers", Request("server", GithubServer.id, NoQuery)),
               AppRequest("GET", "/api/v0/servers", Request("tools", GithubServer.id, NoQuery))}}

StartInit ==
    /\ mcpServers = ShippedCatalog
    /\ loaded = mcpServers
    /\ app \in {StartProcess(nodeEnv, useHttps, key, cert) :
                   nodeEnv \in NodeEnvs, useHttps \in UseHttpsvalues,
                   key \in FileStates, cert \in FileStates}
    /\ request = NoRequest
    /\ response = NoResponse
    /\ served = 0
    /\ chain = ChainIdle
    /\ noted = FALSE
    /\ startup = [pc |-> "select", listeners |-> {}]

\* a step of the startup code: the next position and the listeners opened
StartStep(pc, opened) ==
    /\ startup' = [pc |-> pc, listeners |-> startup.listeners \cup opened]
    /\ UNCHANGED <<mcpServers, loaded, app, request, response, served, chain, noted>>

\* if (USE_HTTPS) startHttpsServer(); else startHttpServer();
SelectServer ==
    /\ startup.pc = "select"
    /\ StartStep(IF USE_HTTPS(app) THEN "check" ELSE "http", {})

\* startHttpsServer: without both files it falls back to startHttpServer()
CheckCertificates ==
    /\ startup.pc = "check"
    /\ StartStep(IF CertificatesMissing(app) THEN "http" ELSE "read", {})

\* fs.readFileSync(keyPath), fs.readFileSync(certPath): a throw goes to the catch block
ReadCertificates ==
    /\ startup.pc = "read"
    /\ StartStep(IF app.key = "unreadable" \/ app.cert = "unreadable"
                 THEN OnStartError ELSE "https", {})

\* https.createServer(options, app).listen(HTTPS_PORT): createServer throws
\* on a key or certificate that is no valid PEM
ListenHttps ==
    /\ startup.pc = "https"
    /\ IF app.key = "invalid" \/ app.cert = "invalid"
       THEN StartStep(OnStartError, {})
       ELSE StartStep("redirect", {HttpsListener})

\* http.createServer(...).listen(PORT): the redirect server
ListenRedirect ==
    /\ startup.pc = "redirect"
    /\ StartStep("done", {RedirectListener})

\* startHttpServer(): app.listen(PORT)
StartHttpServer ==
    /\ startup.pc = "http"
    /\ StartStep("done", {Listener(PORT, "http", "app")})

\* a client sends r to a port on which a listener of the given kind listens
Reaches(r, serves) ==
    /\ startup.pc = "done"
    /\ served < MaxServed
    /\ \E l \in startup.listeners : l.port = r.port /\ l.serves = serves
    /\ request' = r
    /\ served' = served + 1
    /\ UNCHANGED <<loaded, app, chain, startup>>

\* the redirect server answers
ServeRedirect ==
    \E r \in StartRequests :
        /\ Reaches(r, "redirect")
        /\ response' = Redirect(r)
        /\ UNCHANGED <<mcpServers, noted>>

\* the application answers
ServeApp ==
    \E r \in StartRequests :
        /\ Reaches(r, "app")
        /\ response' = Answer(app, mcpServers, r)
        /\ mcpServers' = CatalogAfter(app, mcpServers, r)
        /\ noted' = (noted \/ Noted(response'))

StartNext ==
    \/ SelectServer \/ CheckCertificates \/ ReadCertificates
    \/ ListenHttps \/ ListenRedirect \/ StartHttpServer
    \/ ServeRedirect \/ ServeApp

StartSpec == StartInit /\ [][StartNext]_vars

(***************************************************************************)
(* Vocabulary of the properties                                            *)
(***************************************************************************)
\* a list request has been answered with a list body
ListAnswered == request.route = "list" /\ response.kind = "list"

\* the answered list request carried no cursor and its limit covers the whole
\* catalog, so the page is the whole filtered sequence
FullPage ==
    /\ ListAnswered
    /\ ~Truthy(request.query.cursor)
    /\ response.limit >= Len(mcpServers)

InSeq(x, s) == \E i \in 1..Len(s) : s[i] = x

\* two characters are the same letter, letter case ignored
SameLetter(c, d) ==
    \/ c = d
    \/ (c >= 65 /\ c <= 90 /\ d = c + 32)
    \/ (d >= 65 /\ d <= 90 /\ c = d + 32)

\* two strings are equal, letter case ignored
EqualIgnoringCase(s, u) ==
    Len(s) = Len(u) /\ \A i \in 1..Len(s) : SameLetter(s[i], u[i])

\* sub occurs in s as a substring, letter case ignored
ContainsIgnoringCase(s, sub) ==
    \E k \in 0..(Len(s) - Len(sub)) : \A j \in 1..Len(sub) : SameLetter(s[k + j], sub[j])

\* the comma-separated parts of a text: the maximal comma-free stretches
CommaParts(text) ==
    {SubSeq(text, i, j - 1) : <<i, j>> \in
        {<<a, b>> \in (1..(Len(text) + 1)) \X (1..(Len(text) + 1)) :
            /\ a <= b
            /\ (a = 1 \/ text[a - 1] = 44)
            /\ (b = Len(text) + 1 \/ text[b] = 44)
            /\ \A k \in a..(b - 1) : text[k] # 44}}

\* a descriptor shares a tag, letter case ignored, with the requested tags as written
SharesTagAsWritten(server, text) ==
    \E i \in 1..Len(server.tags), r \in CommaParts(text) :
        EqualIgnoringCase(server.tags[i], r)

\* the same, each requested tag first stripped of surrounding whitespace
SharesTag(server, text) ==
    \E i \in 1..Len(server.tags), r \in CommaParts(text) :
        EqualIgnoringCase(server.tags[i], trim(r))

\* a capability of the descriptor contains the requested text, letter case ignored
HasCapability(server, text) ==
    \E i \in 1..Len(server.capabilities) :
        ContainsIgnoringCase(server.capabilities[i], text)

\* the records of F at the 0-based positions lo .. hi-1 that exist
Stretch(F, lo, hi) ==
    LET a == Max(lo, 0)
        b == Min(hi, Len(F))
    IN IF b > a THEN [i \in 1..(b - a) |-> F[a + i]] ELSE <<>>

\* the filtered sequence of the request in flight
RequestFiltered == FilteredServers(mcpServers, request.query.tags, request.query.capability)

\* the offset the cursor of the request stands for: 0 without a cursor and
\* for a cursor that does not decode to a number
CursorOffset ==
    LET o == RequestOffset(request.query) IN IF o.nan THEN 0 ELSE o.v

\* the limit parameter is the decimal text of a number in 1..100
LimitInRange == \E n \in 1..100 : request.query.limit = Str(numberToString(n))

(***************************************************************************)
(* Properties                                                              *)
(***************************************************************************)
\* C1: pagination completeness.  For string (or absent) filters and a fixed
\* limit in 1..100, the pages collected by following the cursor chain from a
\* request without cursor are at every step a prefix of the filtered
\* sequence, and once the null cursor arrives they are the whole filtered
\* sequence: each record once, in catalog order.
C1_PaginationComplete ==
    (chain.active /\ ListAnswered /\ LimitInRange)
        => /\ Len(chain.pages) <= Len(RequestFiltered)
           /\ chain.pages = SubSeq(RequestFiltered, 1, Len(chain.pages))
           /\ chain.done => chain.pages = RequestFiltered

\* a chain of three pages over a filtered (proper) part of the catalog has ended
C1_Witness ==
    /\ chain.active /\ chain.done /\ ListAnswered /\ LimitInRange
    /\ chain.steps >= 3
    /\ Truthy(request.query.tags)
    /\ Len(chain.pages) >= 3
    /\ Len(chain.pages) < Len(mcpServers)

\* C2: the next cursor is encode(offset + limit) exactly when
\* offset + limit < total, and null otherwise (offset 0 for no cursor and for
\* a malformed one).
C2_NextCursorIffRecordsRemain ==
    ListAnswered =>
        response.cursor =
            IF CursorOffset + response.limit < response.total
            THEN Str(EncodeCursor(CursorOffset + response.limit))
            ELSE Null

\* C3: the effective limit is in 1..100; a value above 100 becomes 100; an
\* absent, non-numeric, zero or negative value becomes 50.
C3_LimitClamped ==
    ListAnswered =>
        LET p == parseInt(request.query.limit)
        IN /\ response.limit \in 1..100
           /\ (~p.nan /\ p.v > 100) => response.limit = 100
           /\ (p.nan \/ p.v <= 0) => response.limit = 50

\* C4: a cursor whose decoded text is not a number is taken as offset 0: the
\* response (page, total, limit, next cursor) is the response of the same
\* request without cursor.
C4_MalformedCursorIsOffsetZero ==
    (request.route = "list" /\ response.kind # "none"
     /\ Truthy(request.query.cursor) /\ DecodeOffset(request.query.cursor).nan)
        => response = ListServers(mcpServers, [request.query EXCEPT !.cursor = Undefined])

\* C5: every answer of the list endpoint is 200 with success:true.
C5_ListNeverFails ==
    (request.route = "list" /\ response.kind # "none")
        => response.status = 200 /\ response.success

\* C6: the page is the stretch of the filtered sequence from the decoded
\* offset o to min(o + L, |F|); it holds at most L records and is empty when
\* o >= |F|.
C6_PageIsContiguousSlice ==
    ListAnswered =>
        LET F == RequestFiltered
            L == response.limit
            o == CursorOffset
        IN /\ response.servers = Stretch(F, o, Min(o + L, Len(F)))
           /\ Len(response.servers) <= L
           /\ o >= Len(F) => response.servers = <<>>

\* C7 as written: with a tags filter, a descriptor is listed exactly when one
\* of its tags equals, letter case ignored, one of the comma-separated
\* requested tags.
C7_TagFilterAsWritten ==
    (FullPage /\ Truthy(request.query.tags) /\ ~Truthy(request.query.capability))
        => \A i \in 1..Len(mcpServers) :
               InSeq(mcpServers[i], response.servers)
                   <=> SharesTagAsWritten(mcpServers[i], request.query.tags.s)

\* C7 amended: with a tags filter, a descriptor is listed exactly when one of
\* its tags equals, letter case ignored, one of the comma-separated requested
\* tags stripped of its surrounding whitespace (OR within the tag list).
C7_TagFilterTrimmed ==
    (FullPage /\ Truthy(request.query.tags) /\ ~Truthy(request.query.capability))
        => \A i \in 1..Len(mcpServers) :
               InSeq(mcpServers[i], response.servers)
                   <=> SharesTag(mcpServers[i], request.query.tags.s)

\* tags=b,c lists a descriptor with tags {a, b} and leaves another one out
C7_Witness ==
    /\ FullPage /\ ~Truthy(request.query.capability)
    /\ request.query.tags = Str(<<98, 44, 99>>)
    /\ \E i \in 1..Len(response.servers) :
           response.servers[i].tags = << <<97>>, <<98>> >>
    /\ Len(response.servers) < Len(mcpServers)

\* C8: with a capability filter, a descriptor is listed exactly when one of
\* its capabilities contains the requested text, letter case ignored.
C8_CapabilityFilter ==
    (FullPage /\ Truthy(request.query.capability) /\ ~Truthy(request.query.tags))
        => \A i \in 1..Len(mcpServers) :
               InSeq(mcpServers[i], response.servers)
                   <=> HasCapability(mcpServers[i], request.query.capability.s)

\* capability=MANAGE lists the descriptor with "repository-management" alone
C8_Witness ==
    /\ FullPage /\ ~Truthy(request.query.tags)
    /\ request.query.capability = Str(<<77, 65, 78, 65, 71, 69>>)
    /\ response.servers = <<GithubServer>>
    /\ Len(mcpServers) = 2

\* C9: the filtered sequence holds, in catalog order, exactly the descriptors
\* that pass every filter that is given; with no filter it is the catalog.
C9_FiltersCombineByAnd ==
    FullPage =>
        LET tags == request.query.tags
            capability == request.query.capability
            Passes(server) ==
                /\ Truthy(tags) => SharesTag(server, tags.s)
                /\ Truthy(capability) => HasCapability(server, capability.s)
        IN /\ response.servers = SelectSeq(mcpServers, Passes)
           /\ (~Truthy(tags) /\ ~Truthy(capability)) => response.servers = mcpServers

\* both filters given: a descriptor that passes the tags alone is left out
C9_Witness ==
    /\ FullPage
    /\ Truthy(request.query.tags) /\ Truthy(request.query.capability)
    /\ Len(response.servers) >= 1
    /\ Len(response.servers) < Len(FilterByTags(mcpServers, request.query.tags))

\* C10: for an id of no descriptor, get-by-id, config and tools answer 404
\* SERVER_NOT_FOUND, whatever version and format are.
C10_UnknownIdNotFound ==
    (request.route \in {"server", "config", "tools"} /\ response.kind # "none"
     /\ \A i \in 1..Len(mcpServers) : mcpServers[i].id # request.id)
        => /\ response.kind = "error"
           /\ response.status = 404
           /\ response.code = "SERVER_NOT_FOUND"

\* config of an unknown id was asked in an unsupported format, with a version
C10_Witness ==
    /\ request.route = "config" /\ response.kind = "error"
    /\ request.id \in UnknownIds
    /\ request.query.format = Str(<<121, 97, 109, 108>>)
    /\ Truthy(request.query.version)
    /\ response.status = 404

(***************************************************************************)
(* C11  version mismatch on GET /:id                                       *)
(***************************************************************************)
\* the descriptor the path id of the request names (the id is known)
KnownId == find(mcpServers, request.id) # 0
RequestedServer == mcpServers[find(mcpServers, request.id)]

\* the get-by-id answer is 200 with the descriptor and a note that names the
\* requested and the actual version
AnnotatedAnswer ==
    /\ response.status = 200
    /\ response.success
    /\ response.kind = "server"
    /\ response.server = RequestedServer
    /\ response.versionNote.kind = "string"
    /\ includes(response.versionNote.s, request.query.version.s)
    /\ includes(response.versionNote.s, RequestedServer.version)

\* C11 as written: for a known id, GET /:id with a version parameter that
\* differs from the version of the descriptor is answered 200, success true,
\* with the descriptor and a versionNote naming both versions.
C11_VersionMismatchAnnotated ==
    (/\ request.route = "server"
     /\ response.kind # "none"
     /\ KnownId
     /\ request.query.version.kind = "string"
     /\ request.query.version.s # RequestedServer.version)
    => AnnotatedAnswer

\* C11 amended: the same for a version parameter that is not empty; an empty
\* version value (?version=) is treated as no version and gets no note.
C11_NonEmptyVersionMismatchAnnotated ==
    (/\ request.route = "server"
     /\ response.kind # "none"
     /\ KnownId
     /\ request.query.version.kind = "string"
     /\ request.query.version.s # <<>>
     /\ request.query.version.s # RequestedServer.version)
    => AnnotatedAnswer

\* version 2.0.0 of github-mcp-server (1.0.0) was requested and annotated
C11_Witness ==
    /\ request.route = "server"
    /\ request.id = GithubServer.id
    /\ request.query.version = Str(<<50, 46, 48, 46, 48>>)
    /\ response.kind = "server"
    /\ response.versionNote = Str(VersionNote(request.query.version, GithubServer))

(***************************************************************************)
(* C12  format of GET /:id/config                                          *)
(***************************************************************************)
\* the config answer is the 400 UNSUPPORTED_FORMAT error
UnsupportedFormatAnswer ==
    /\ response.status = 400
    /\ response.kind = "error"
    /\ ~response.success
    /\ response.code = "UNSUPPORTED_FORMAT"

ConfigAnsweredKnownId ==
    request.route = "config" /\ response.kind # "none" /\ KnownId

C13_CatalogNeverMutated == mcpServers = loaded

\* a second or later request got a descriptor with a versionNote, and the
\* catalog is as loaded
C13_Witness ==
    /\ served >= 2
    /\ response.kind = "server"
    /\ response.versionNote.kind = "string"
    /\ mcpServers = loaded

(***************************************************************************)
(* C14  exception detail                                                   *)
(***************************************************************************)
\* C14: a 500 response carries the message 'Internal server error', and it
\* carries the detail text of the exception only when the process runs with
\* NODE_ENV=development.
C14_DetailOnlyInDevelopment ==
    response.status = 500 =>
        /\ response.message = "Internal server error"
        /\ (response.details # "" => app.nodeEnv = "development")

(***************************************************************************)
(* C15  response envelope                                                  *)
(***************************************************************************)
\* C15: every endpoint other than health and docs (list, get-by-id, config,
\* tools, GET /, unmatched routes) answers with a body of the shape
\* {success, data} or {success, error}.
C15_EnvelopeOnEveryEndpoint ==
    (response.kind # "none" /\ Route(app, request) \notin {"health", "docs"}) =>
        /\ "success" \in BodyKeys(response)
        /\ ("data" \in BodyKeys(response) \/ "error" \in BodyKeys(response))

(***************************************************************************)
(* C16  paths of the application started from src/index.js                 *)
(***************************************************************************)
\* C16: on the application started from src/index.js, GET /api/v0/health is
\* answered 200 'healthy', GET /api/v0/servers is answered 200 with the list
\* envelope, and GET /health and GET /api/mcp-servers are answered 404.
C16_ServedUnderV0Only ==
    (response.kind # "none" /\ app.entry = "index.js" /\ request.method = "GET") =>
        /\ (request.route = "none" /\ request.path = "/api/v0/health")
              => (response.status = 200 /\ response.kind = "health")
        /\ (request.route = "list" /\ request.path = "/api/v0/servers"
               /\ request.query = NoQuery)
              => (response.status = 200 /\ response.kind = "list")
        /\ (request.route = "none" /\ request.path = "/health")
              => response.status = 404
        /\ (request.route = "list" /\ request.path = "/api/mcp-servers")
              => response.status = 404

(***************************************************************************)
(* C17  the offset query parameter                                         *)
(***************************************************************************)
\* C17: a list request with offset=k is answered with the page of the
\* filtered sequence that starts at index k, and a request without offset
\* with the page that starts at index 0.
C17_OffsetParameterHonoured ==
    (/\ request.route = "list"
     /\ response.kind = "list"
     /\ request.query.cursor = Undefined)
    => \A k \in 0..MaxOffset :
          (\/ request.query.offset = Str(numberToString(k))
           \/ (k = 0 /\ request.query.offset = Undefined))
          => response.servers = Stretch(RequestFiltered, k, k + response.limit)

(***************************************************************************)
(* C18  cursor round trip                                                  *)
(***************************************************************************)
\* C18: for every n in 0 .. MaxRoundTrip, the cursor that encodes n decodes
\* to exactly n, and a non-null cursor in the answer to a request at offset
\* n decodes to n + limit.
C18_CursorRoundTrip ==
    \A n \in 0..MaxRoundTrip :
        request.query.cursor = Str(EncodeCursor(n)) =>
            /\ RequestOffset(request.query) = Num(n)
            /\ (ListAnswered /\ response.cursor.kind = "string")
                  => DecodeOffset(response.cursor) = Num(n + response.limit)

\* a cursor of three digits was sent, and the cursor emitted in the answer
\* has three digits as well
C18_Witness ==
    /\ ListAnswered
    /\ RequestOffset(request.query).v >= 100
    /\ response.cursor.kind = "string"
    /\ DecodeOffset(response.cursor).v > RequestOffset(request.query).v

(***************************************************************************)
(* C19  the filter is idempotent and keeps the catalog order               *)
(***************************************************************************)
\* s is t with some elements left out, the others in the order of t
RECURSIVE IsSubsequence(_, _)
IsSubsequence(s, t) ==
    IF s = <<>> THEN TRUE
    ELSE IF t = <<>> THEN FALSE
    ELSE IF Head(s) = Head(t) THEN IsSubsequence(Tail(s), Tail(t))
    ELSE IsSubsequence(s, Tail(t))

\* C19: for every tags/capability combination the filter applied to its own
\* output returns the same sequence, and the output is a subsequence of the
\* catalog (surviving descriptors keep their catalog order); the page of a
\* request that lists everything is that output.
C19_FilterIdempotentOrderPreserving ==
    ListAnswered =>
        /\ FilteredServers(RequestFiltered, request.query.tags, request.query.capability)
              = RequestFiltered
        /\ IsSubsequence(RequestFiltered, mcpServers)
        /\ FullPage =>
              /\ IsSubsequence(response.servers, mcpServers)
              /\ FilteredServers(response.servers, request.query.tags,
                                 request.query.capability) = response.servers

\* a whole filtered list of two or more descriptors, with a descriptor of the
\* catalog left out between or before them
C19_Witness ==
    /\ FullPage
    /\ Truthy(request.query.capability)
    /\ Len(response.servers) >= 2
    /\ Len(response.servers) < Len(mcpServers)

(***************************************************************************)
(* C20  total                                                              *)
(***************************************************************************)
\* the descriptor passes the filters of the request in flight
PassesFilters(server) ==
    /\ Truthy(request.query.tags) => SharesTag(server, request.query.tags.s)
    /\ Truthy(request.query.capability) => HasCapability(server, request.query.capability.s)

\* C20: in every list response total is the number of descriptors of the
\* catalog that pass the filters of the request, and it is the same on every
\* page of a cursor chain.
C20_TotalCountsFiltered ==
    ListAnswered =>
        /\ response.total =
              Cardinality({i \in 1..Len(mcpServers) : PassesFilters(mcpServers[i])})
        /\ chain.active => response.total = chain.total

\* the second or a later page of a chain under a filter: total is below the
\* size of the catalog and above the size of the page
C20_Witness ==
    /\ ListAnswered
    /\ chain.active
    /\ chain.steps >= 2
    /\ response.total < Len(mcpServers)
    /\ Len(response.servers) < response.total

(***************************************************************************)
(* C21  unmatched routes                                                   *)
(***************************************************************************)
\* the method and the path of the request match a route the application
\* registers: GET on the health path, on /, on /api/docs, or on a route of
\* the router under the mount path
Registered(a, r) ==
    /\ r.method = "GET"
    /\ \/ (r.route = "none" /\ r.path \in {HealthPath(a), "/", "/api/docs"})
       \/ (r.path = MountPath(a) /\ r.route \in {"list", "server", "config", "tools"})

\* the answer is 404 {success:false, error:{message:'Endpoint not found', code:'NOT_FOUND'}}
NotFoundAnswer ==
    /\ response.status = 404
    /\ response.kind = "error"
    /\ ~response.success
    /\ response.message = "Endpoint not found"
    /\ response.code = "NOT_FOUND"

HttpsWithoutCertificates ==
    /\ USE_HTTPS(app)
    /\ (app.key # "valid" \/ app.cert # "valid")

\* C23: when HTTPS is enabled but the key or the certificate is absent or
\* cannot be loaded, startup ends with the application on plain HTTP on PORT
\* and with no HTTPS listener; startup never ends with no listener that
\* serves the application.
C23_FallsBackToHttp ==
    startup.pc = "done" =>
        /\ \E l \in startup.listeners : l.serves = "app"
        /\ HttpsWithoutCertificates =>
              startup.listeners = {Listener(PORT, "http", "app")}

\* the certificate file is there but no valid PEM: createServer threw, and
\* the application answered a request on the plain-HTTP port
C23_Witness ==
    /\ USE_HTTPS(app)
    /\ app.key = "valid"
    /\ app.cert = "invalid"
    /\ startup.pc = "done"
    /\ response.kind = "list"
    /\ request.port = PORT

(***************************************************************************)
(* C30  HTTPS mode                                                         *)
(***************************************************************************)
\* C30: started in HTTPS mode with key and certificate present, the
\* application listens on HTTPS_PORT only, every request to the plain-HTTP
\* port, whatever its path, is answered 301 with the Location
\* https://localhost:HTTPS_PORT followed by the URL of the request, and no
\* answer on the plain-HTTP port carries catalog data.
C30_PlainPortOnlyRedirects ==
    (/\ startup.pc = "done"
     /\ USE_HTTPS(app)
     /\ app.key = "valid"
     /\ app.cert = "valid")
    => /\ \A l \in startup.listeners : l.serves = "app" <=> l.port = HTTPS_PORT
       /\ \E l \in startup.listeners : l.port = HTTPS_PORT /\ l.protocol = "https"
       /\ (response.kind # "none" /\ request.port = PORT) =>
             /\ response.status = 301
             /\ response.kind = "redirect"
             /\ response.location.scheme = "https"
             /\ response.location.host = "localhost"
             /\ response.location.port = HTTPS_PORT
             /\ response.location.path = request.path
             /\ response.location.route = request.route
             /\ response.location.id = request.id
             /\ response.location.query = request.query

\* in HTTPS mode the list with a tags filter was asked on the plain port and
\* redirected
C30_Witness ==
    /\ startup.pc = "done"
    /\ USE_HTTPS(app)
    /\ response.kind = "redirect"
    /\ request.port = PORT
    /\ request.route = "list"
    /\ Truthy(request.query.tags)
    /\ response.location.query = request.query

(***************************************************************************)
(* C24  config and tools of a descriptor                                   *)
(***************************************************************************)
\* C24: for a known id, GET /:id/config without format answers 200
\* {success:true, data} with exactly the configuration of the descriptor
\* whose id equals the path id, and GET /:id/tools with exactly its tools in
\* their order; a 200 is never built from a descriptor with another id.
C24_ConfigAndToolsOfThatDescriptor ==
    /\ (request.route = "config" /\ response.kind # "none" /\ KnownId
            /\ request.query.format = Undefined)
          => /\ response.status = 200
             /\ response.success
             /\ BodyKeys(response) = {"success", "data"}
    /\ (request.route = "tools" /\ response.kind # "none" /\ KnownId)
          => /\ response.status = 200
             /\ response.success
             /\ BodyKeys(response) = {"success", "data"}
    /\ response.kind = "config" =>
          \E i \in 1..Len(mcpServers) :
              /\ mcpServers[i].id = request.id
              /\ response.configuration = mcpServers[i].configuration
    /\ response.kind = "tools" =>
          \E i \in 1..Len(mcpServers) :
              /\ mcpServers[i].id = request.id
              /\ response.tools = mcpServers[i].tools

\* the tools of the second shipped descriptor were asked and returned
C24_Witness ==
    /\ request.route = "tools"
    /\ request.id = PlaywrightServer.id
    /\ response.kind = "tools"
    /\ response.tools = PlaywrightServer.tools
    /\ response.tools # GithubServer.tools

(***************************************************************************)
(* C25  cursor chains end                                                  *)
(***************************************************************************)
\* C25: a chain started without a cursor and continued with the same limit
\* and the cursor of the previous answer reaches a null cursor after
\* finitely many requests, whatever the filters and the limit parameter.
\* In finite-run form: while the chain has not ended, the cursor of each
\* answer stands for an offset beyond the offset of the request, and the
\* number of requests made does not exceed total.
C25_ChainsEnd ==
    (chain.active /\ ~chain.done /\ ListAnswered) =>
        /\ ~DecodeOffset(response.cursor).nan
        /\ DecodeOffset(response.cursor).v > CursorOffset
        /\ chain.steps <= response.total

(***************************************************************************)
(* C26  the offset is a non-negative integer                               *)
(***************************************************************************)
\* C26: for every cursor value the offset used to slice the filtered
\* sequence is a non-negative integer, and a page that is not empty begins
\* at that index counted from the start of the filtered sequence.
C26_OffsetNonNegative ==
    ListAnswered =>
        LET offset == RequestOffset(request.query)
        IN /\ ~offset.nan
           /\ offset.v >= 0
           /\ response.servers # <<>> =>
                 /\ offset.v < Len(RequestFiltered)
                 /\ response.servers[1] = RequestFiltered[offset.v + 1]

(***************************************************************************)
(* C27  versionNote does not outlive its request                           *)
(***************************************************************************)
\* C27: a descriptor is returned with a versionNote only in the answer to a
\* get-by-id request whose own version parameter is non-empty and differs
\* from the version of the descriptor; every other get-by-id answer, also
\* after such a request, and every list answer return descriptors without a
\* versionNote.
C27_VersionNoteOnlyOnMismatch ==
    /\ response.kind = "server" =>
          /\ "versionNote" \notin DOMAIN response.server
          /\ response.versionNote.kind = "string" <=>
                (/\ Truthy(request.query.version)
                 /\ toString(request.query.version) # response.server.version)
    /\ response.kind = "list" =>
          \A i \in 1..Len(response.servers) :
              "versionNote" \notin DOMAIN response.servers[i]

\* after an answer with a versionNote, a get-by-id request without version
\* got the descriptor without a note
C27_Witness ==
    /\ noted
    /\ response.kind = "server"
    /\ request.query.version = Undefined
    /\ response.versionNote = Undefined

(***************************************************************************)
(* C29  requests are independent                                           *)
(***************************************************************************)
\* C29: each answer equals the answer the same request gets as the only
\* request served against the catalog as loaded, whatever requests the
\* process served before.  Every handler runs to its answer without
\* yielding, so requests served concurrently are served in some order.
C29_RequestsIndependent ==
    response.kind # "none" => response = Answer(app, loaded, request)

\* after an answer with a versionNote, a list request was answered with the
\* whole catalog as loaded
C29_Witness ==
    /\ noted
    /\ served >= 2
    /\ response.kind = "list"
    /\ response.servers = loaded

(***************************************************************************)
(* C28  a cursor reused under other filters                                *)
(***************************************************************************)
\* C28: a cursor obtained under one filter combination and sent with another
\* is not detected or rejected: the request succeeds, the cursor is the
\* encoding of a number and nothing else, and the page is the stretch of the
\* new filtered sequence that starts at that number.
C28_CursorReusedAsPlainOffset ==
    chain.reused =>
        LET n == DecodeOffset(request.query.cursor)
        IN /\ response.status = 200
           /\ response.kind = "list"
           /\ ~n.nan
           /\ request.query.cursor = Str(EncodeCursor(n.v))
           /\ response.total = Len(RequestFiltered)
           /\ response.servers = Stretch(RequestFiltered, n.v, n.v + response.limit)

\* a cursor obtained without filter was sent with a tags filter, and the
\* answer holds a descriptor of the new filtered sequence
C28_Witness ==
    /\ chain.reused
    /\ Truthy(request.query.tags)
    /\ response.kind = "list"
    /\ response.servers # <<>>
    /\ response.total < Len(mcpServers)

====
